---- MODULE Spec2Model ----
(***************************************************************************)
(* A model of automata.js: Conway's Game of Life on a bounded N x N grid,  *)
(* in two variants.  Variant A (lines 1-396) runs a fixed animation loop,  *)
(* stamps the word ANDER, scatters nature shapes at every reset interval   *)
(* and spawns ripples on click.  Variant B (lines 398-600) has start,      *)
(* pause, step, clear, randomize, grid-size and speed controls and toggles *)
(* a cell on click.                                                        *)
(*                                                                         *)
(* grid[y][x] is the cell in row y, column x, as in the source.  The       *)
(* source's functions read the globals grid and gridSize; the operators    *)
(* below take them as arguments (g, n) and return the new grid.            *)
(***************************************************************************)
EXTENDS Integers, Sequences, FiniteSets, TLC

VARIABLES
  variant,        \* "A" or "B": which of the two programs runs
  gridSize,       \* let gridSize
  canvasWidth,    \* canvas.width (= canvas.height)
  cellSize,       \* let cellSize, the rational <<numerator, denominator>>
  grid,           \* let grid
  running,        \* let running
  speedMs,        \* let speedMs
  lastStepTime,   \* let lastStepTime
  lastResetTime,  \* let lastResetTime (variant A)
  ripples,        \* const ripples (variant A), a sequence of records
  drawn,          \* what drawGrid last painted: a snapshot of grid
  now,            \* the clock: the latest timestamp the program has seen
  op,             \* history: the handler that ran last
  nSteps,         \* history: nextGeneration calls made by that handler
  nResets,        \* history: periodic resets made by that handler
  grid0,          \* history: grid when that handler started
  ripples0,       \* history: ripples when that handler started
  arg             \* history: the inputs of that handler

vars == <<variant, gridSize, canvasWidth, cellSize, grid, running, speedMs,
          lastStepTime, lastResetTime, ripples, drawn, now,
          op, nSteps, nResets, grid0, ripples0, arg>>

----------------------------------------------------------------------------
(* Bounds of the model *)

\* gridSize of variant A (80 in the source)
GridSizeA == 3
\* largest gridSize of variant B (50 by default in the source)
MaxGridSizeB == 2
\* largest gridSize of the grids SpecLife draws for variant A
MaxPureSize == 3
\* largest gridSize of the grids SpecLife draws for variant B
MaxPureSizeB == 2
\* Math.random() returns one of 0/RandomDen .. (RandomDen-1)/RandomDen
RandomDen == 2
\* timestamps are multiples of FrameMs
FrameMs == 2500
\* a frame callback comes at most MaxFrameSkip frames after the previous one
MaxFrameSkip == 2
\* the clock stops after MaxFrames frames
MaxFrames == 10
\* the clock of variant B stops after MaxFramesB frames
MaxFramesB == 2
\* clicks are ignored by the model once MaxRipples ripples are active
MaxRipples == 1
\* gridSize of the grids SpecRing draws
RingGridSize == 5
\* gridSize of the states SpecAge draws
AgeGridSize == 1
\* ripples of the drawn initial states of SpecAge
MaxInitRipples == 3
\* ripples of the drawn initial states of SpecOrder
MaxOrderRipples == 2

\* gridSize of the states SpecLive runs from
LiveGridSize == 2

\* gridSize of the grids SpecBlink puts a blinker on
BlinkGridSize == 5
\* the clock of SpecBlink stops after MaxBlinkFrames frames, before a reset
MaxBlinkFrames == 6
\* gridSize of the grids SpecStamp draws
StampGridSize == 2
\* stampPattern offsets drawn by SpecStamp: -MaxOffset .. MaxOffset
MaxOffset == 6

(* Program constants *)

speedMsA == 5000
resetIntervalMs == 20000
speedMsB == 120
maxAge == 10
minShapes == 12
maxShapes == 25
LETTER_WIDTH == 5
LETTER_HEIGHT == 7
LETTER_SPACING == 1
MaxCanvasWidth == 800
CanvasMargin == 64

----------------------------------------------------------------------------
(* Grid helpers *)

Idx(n) == 0 .. (n - 1)

createEmptyGrid(size) == [y \in Idx(size) |-> [x \in Idx(size) |-> 0]]

setCellAlive(g, x, y, n) ==
  IF x >= 0 /\ x < n /\ y >= 0 /\ y < n
  THEN [g EXCEPT ![y][x] = 1]
  ELSE g

----------------------------------------------------------------------------
(* Game of Life rules *)

\* one pass of the loop body for the position (nx, ny): what it adds to count
countAt(g, nx, ny, n) ==
  IF nx >= 0 /\ nx < n /\ ny >= 0 /\ ny < n THEN g[ny][nx] ELSE 0

\* a plausible slip: the cell itself is not skipped
countNeighborsSelf(g, x, y, n) ==
    countAt(g, x - 1, y - 1, n) + countAt(g, x, y - 1, n) + countAt(g, x + 1, y - 1, n)
  + countAt(g, x - 1, y, n)     + countAt(g, x, y, n)     + countAt(g, x + 1, y, n)
  + countAt(g, x - 1, y + 1, n) + countAt(g, x, y + 1, n) + countAt(g, x + 1, y + 1, n)

\* the dy and dx loops unrolled, in their order; dx = dy = 0 is skipped
countNeighbors(g, x, y, n) ==
    countAt(g, x - 1, y - 1, n) + countAt(g, x, y - 1, n) + countAt(g, x + 1, y - 1, n)
  + countAt(g, x - 1, y, n)                               + countAt(g, x + 1, y, n)
  + countAt(g, x - 1, y + 1, n) + countAt(g, x, y + 1, n) + countAt(g, x + 1, y + 1, n)

\* a plausible slip: a live cell never dies
nextGenerationKeep(g, n) ==
  [y \in Idx(n) |-> [x \in Idx(n) |->
    LET neighbors == countNeighbors(g, x, y, n)
        isAlive == g[y][x] = 1
    IN IF isAlive THEN 1
       ELSE IF ~isAlive /\ neighbors = 3 THEN 1
       ELSE 0]]

\* a plausible slip: a live cell survives with 2, 3 or 4 neighbours
nextGenerationFour(g, n) ==
  [y \in Idx(n) |-> [x \in Idx(n) |->
    LET neighbors == countNeighbors(g, x, y, n)
        isAlive == g[y][x] = 1
    IN IF isAlive /\ (neighbors = 2 \/ neighbors = 3 \/ neighbors = 4) THEN 1
       ELSE IF ~isAlive /\ neighbors = 3 THEN 1
       ELSE 0]]

nextGeneration(g, n) ==
  [y \in Idx(n) |-> [x \in Idx(n) |->
    LET neighbors == countNeighbors(g, x, y, n)
        isAlive == g[y][x] = 1
    IN IF isAlive /\ (neighbors = 2 \/ neighbors = 3) THEN 1
       ELSE IF ~isAlive /\ neighbors = 3 THEN 1
       ELSE 0]]

----------------------------------------------------------------------------
(* Pattern stamping.  A pattern is a sequence of rows, a row a sequence of *)
(* markers: 1 for the character "1", 0 for "0".  pattern[y+1][x+1] is the  *)
(* source's pattern[y][x].                                                 *)

\* a plausible slip: the pattern is copied, dead marks included
stampPatternCopy(g, pattern, offsetX, offsetY, n) ==
  LET height == Len(pattern)
      width == Len(pattern[1])
  IN [gy \in Idx(n) |-> [gx \in Idx(n) |->
       LET y == gy - offsetY
           x == gx - offsetX
       IN IF y >= 0 /\ y < height /\ x >= 0 /\ x < width
          THEN pattern[y + 1][x + 1]
          ELSE g[gy][gx]]]

stampPattern(g, pattern, offsetX, offsetY, n) ==
  LET height == Len(pattern)
      width == Len(pattern[1])
  IN [gy \in Idx(n) |-> [gx \in Idx(n) |->
       LET y == gy - offsetY
           x == gx - offsetX
       IN IF /\ y >= 0 /\ y < height /\ x >= 0 /\ x < width
             /\ pattern[y + 1][x + 1] = 1
             /\ gx >= 0 /\ gx < n /\ gy >= 0 /\ gy < n
          THEN 1
          ELSE g[gy][gx]]]

LETTERS ==
  [A |-> << <<0,1,1,1,0>>,
            <<1,0,0,0,1>>,
            <<1,0,0,0,1>>,
            <<1,1,1,1,1>>,
            <<1,0,0,0,1>>,
            <<1,0,0,0,1>>,
            <<1,0,0,0,1>> >>,
   N |-> << <<1,0,0,0,1>>,
            <<1,1,0,0,1>>,
            <<1,0,1,0,1>>,
            <<1,0,0,1,1>>,
            <<1,0,0,0,1>>,
            <<1,0,0,0,1>>,
            <<1,0,0,0,1>> >>,
   D |-> << <<1,1,1,1,0>>,
            <<1,0,0,0,1>>,
            <<1,0,0,0,1>>,
            <<1,0,0,0,1>>,
            <<1,0,0,0,1>>,
            <<1,0,0,0,1>>,
            <<1,1,1,1,0>> >>,
   E |-> << <<1,1,1,1,1>>,
            <<1,0,0,0,0>>,
            <<1,0,0,0,0>>,
            <<1,1,1,1,1>>,
            <<1,0,0,0,0>>,
            <<1,0,0,0,0>>,
            <<1,1,1,1,1>> >>,
   R |-> << <<1,1,1,1,0>>,
            <<1,0,0,0,1>>,
            <<1,0,0,0,1>>,
            <<1,1,1,1,0>>,
            <<1,0,1,0,0>>,
            <<1,0,0,1,0>>,
            <<1,0,0,0,1>> >> ]

\* the characters of the word "ANDER"
Word == <<"A", "N", "D", "E", "R">>

RECURSIVE placeLetters(_, _, _, _, _)
placeLetters(g, n, i, x, startY) ==
  IF i > Len(Word) THEN g
  ELSE placeLetters(stampPattern(g, LETTERS[Word[i]], x, startY, n),
                    n, i + 1, x + LETTER_WIDTH + LETTER_SPACING, startY)

placeWordANDER(g, n) ==
  LET totalWidth == Len(Word) * LETTER_WIDTH + (Len(Word) - 1) * LETTER_SPACING
      startX == (n - totalWidth) \div 2
      startY == (n - LETTER_HEIGHT) \div 2
  IN placeLetters(g, n, 1, startX, startY)

SHAPES ==
  [tree    |-> << <<0,0,1,0,0>>,
                  <<0,1,1,1,0>>,
                  <<1,1,1,1,1>>,
                  <<0,0,1,0,0>>,
                  <<0,0,1,0,0>>,
                  <<0,0,1,0,0>>,
                  <<0,1,1,1,0>> >>,
   ant     |-> << <<0,0,1,0,0>>,
                  <<1,1,1,1,1>>,
                  <<0,1,1,1,0>>,
                  <<0,0,1,0,0>>,
                  <<0,1,0,1,0>>,
                  <<1,0,0,0,1>>,
                  <<0,0,0,0,0>> >>,
   octopus |-> << <<0,0,1,1,1,0,0>>,
                  <<0,1,1,1,1,1,0>>,
                  <<1,1,1,1,1,1,1>>,
                  <<1,1,1,1,1,1,1>>,
                  <<0,0,1,1,1,0,0>>,
                  <<0,1,0,1,0,1,0>>,
                  <<0,1,0,1,0,1,0>> >>,
   leaf    |-> << <<0,0,1,0,0>>,
                  <<0,1,1,1,0>>,
                  <<1,1,1,1,1>>,
                  <<0,1,1,1,0>>,
                  <<0,0,1,0,0>>,
                  <<0,0,1,0,0>>,
                  <<0,0,1,0,0>> >> ]

\* Object.keys(SHAPES), in insertion order
ShapeNames == <<"tree", "ant", "octopus", "leaf">>

\* Math.floor(Math.random() * m) for the random values k / RandomDen
RandomFloor(m) == {(k * m) \div RandomDen : k \in 0 .. (RandomDen - 1)}

\* the (pattern, startX, startY) one iteration of the scatter loop may draw
ScatterChoices(n) ==
  UNION {
    LET pattern == SHAPES[ShapeNames[i + 1]]
        height == Len(pattern)
        width == Len(pattern[1])
    IN {<<pattern, startX, startY>> :
          startX \in RandomFloor(n - width), startY \in RandomFloor(n - height)}
    : i \in RandomFloor(Len(ShapeNames)) }

\* the grids the loop may have built after iterations i .. numShapes-1,
\* started from any grid of G
RECURSIVE scatterFrom(_, _, _, _)
scatterFrom(G, i, numShapes, n) ==
  IF i >= numShapes THEN G
  ELSE scatterFrom({stampPattern(g, c[1], c[2], c[3], n) :
                      g \in G, c \in ScatterChoices(n)},
                   i + 1, numShapes, n)

\* the set of grids placeRandomNatureShapesScattered may leave
placeRandomNatureShapesScattered(g, n) ==
  UNION {scatterFrom({g}, 0, numShapes, n) :
           numShapes \in {r + minShapes : r \in RandomFloor(maxShapes - minShapes + 1)}}

----------------------------------------------------------------------------
(* Ripple effect (variant A) *)

spawnRipple(rs, x, y) ==
  Append(rs, [x |-> x, y |-> y, age |-> 0, maxAge |-> maxAge])

Min(a, b) == IF a <= b THEN a ELSE b
Max(a, b) == IF a >= b THEN a ELSE b

\* dist >= radius - 0.5 && dist <= radius + 0.5, with dist = sqrt(d2).
\* Both sides are doubled and squared: d2 and radius are integers, radius >= 1,
\* and the double nearest to sqrt(d2) lies on the same side of radius -+ 0.5
\* as sqrt(d2) itself (the two never meet: (2 radius -+ 1)^2 is odd, 4 d2 even).
InRing(dx, dy, radius) ==
  LET d2 == dx * dx + dy * dy
  IN /\ 4 * d2 >= (2 * radius - 1) * (2 * radius - 1)
     /\ 4 * d2 <= (2 * radius + 1) * (2 * radius + 1)

\* a plausible slip: a ring cell is flipped, not set alive
applyOneRippleToggle(g, r, n) ==
  LET radius == r.age
  IN [y \in Idx(n) |-> [x \in Idx(n) |->
       IF (radius = 0 /\ x = r.x /\ y = r.y)
          \/ (radius > 0 /\ InRing(x - r.x, y - r.y, radius))
       THEN 1 - g[y][x]
       ELSE g[y][x]]]

\* a plausible slip: the whole disc of the radius is lit, not the ring
applyOneRippleDisc(g, r, n) ==
  LET radius == r.age
  IN [y \in Idx(n) |-> [x \in Idx(n) |->
       LET dx == x - r.x
           dy == y - r.y
       IN IF 4 * (dx * dx + dy * dy) <= (2 * radius + 1) * (2 * radius + 1)
          THEN 1 ELSE g[y][x]]]

\* the body of the for-of loop, for one ripple r
applyOneRipple(g, r, n) ==
  LET radius == r.age
  IN IF radius = 0 THEN setCellAlive(g, r.x, r.y, n)
     ELSE LET minX == Max(0, r.x - radius)
              maxX == Min(n - 1, r.x + radius)
              minY == Max(0, r.y - radius)
              maxY == Min(n - 1, r.y + radius)
          IN [y \in Idx(n) |-> [x \in Idx(n) |->
               IF /\ y >= minY /\ y <= maxY /\ x >= minX /\ x <= maxX
                  /\ InRing(x - r.x, y - r.y, radius)
               THEN 1
               ELSE g[y][x]]]

RECURSIVE applyFrom(_, _, _, _)
applyFrom(g, rs, n, i) ==
  IF i > Len(rs) THEN g
  ELSE applyFrom(applyOneRipple(g, rs[i], n), rs, n, i + 1)

applyRipplesToGrid(g, rs, n) == applyFrom(g, rs, n, 1)

\* ripples.splice(i, 1), for the 1-based index i
Splice(rs, i) == SubSeq(rs, 1, i - 1) \o SubSeq(rs, i + 1, Len(rs))

\* the body of the backwards loop from the 1-based index i down to 1
RECURSIVE updateFrom(_, _)
updateFrom(rs, i) ==
  IF i < 1 THEN rs
  ELSE LET aged == [rs EXCEPT ![i].age = @ + 1]
       IN IF aged[i].age > aged[i].maxAge
          THEN updateFrom(Splice(aged, i), i - 1)
          ELSE updateFrom(aged, i - 1)

\* a plausible slip: the ripples age and none is ever removed
updateRipplesKeep(rs) == [i \in 1 .. Len(rs) |-> [rs[i] EXCEPT !.age = @ + 1]]

\* a plausible slip: a ripple is removed when its age reaches maxAge
updateRipplesEarly(rs) ==
  SelectSeq([i \in 1 .. Len(rs) |-> [rs[i] EXCEPT !.age = @ + 1]],
            LAMBDA r : r.age < r.maxAge)

updateRipples(rs) == updateFrom(rs, Len(rs))

----------------------------------------------------------------------------
(* Canvas *)

\* pointer positions sampled along each axis of the canvas: enough to land in
\* every column (row) of the largest grid and on the canvas's far edge
ClickSamples == Max(GridSizeA, MaxGridSizeB) + 1

\* window.innerWidth, as the resize notification and init read it
InnerWidths == {464, 1000}

\* Math.min(800, window.innerWidth - 64)
FitWidth(innerWidth) == Min(MaxCanvasWidth, innerWidth - CanvasMargin)

\* Math.floor(x / cellSize) for x = offset * (canvas.width / rect.width),
\* offset being e.clientX - rect.left (or e.clientY - rect.top)
GridCoord(offset, rectWidth, cw, cs) ==
  (offset * cw * cs[2]) \div (rectWidth * cs[1])

\* rect.width (= rect.height): the canvas is displayed at half its width
RectWidths(cw) == {cw \div 2}

\* pointer offsets: one left of the canvas, ClickSamples + 1 across it
ClickOffsets(rectWidth) ==
  {-1} \cup {(k * rectWidth) \div ClickSamples : k \in 0 .. ClickSamples}

----------------------------------------------------------------------------
(* History variables: what the handler that just ran was given and found *)

Hist(name, steps, resets, a) ==
  /\ op' = name
  /\ nSteps' = steps
  /\ nResets' = resets
  /\ grid0' = grid
  /\ ripples0' = ripples
  /\ arg' = a

----------------------------------------------------------------------------
(* Handlers common to both variants *)

\* resizeCanvas, as the window's resize listener
ResizeCanvas(innerWidth) ==
  /\ canvasWidth' = FitWidth(innerWidth)
  /\ cellSize' = <<canvasWidth', gridSize>>
  /\ drawn' = grid
  /\ Hist("resize", 0, 0, <<innerWidth>>)
  /\ UNCHANGED <<variant, gridSize, grid, running, speedMs, lastStepTime,
                 lastResetTime, ripples, now>>

\* a plausible slip: the timestamp itself is compared, not the time elapsed
StepDueAbsolute(timestamp, last, speed) == timestamp >= speed

\* delta >= speedMs
StepDue(timestamp, last, speed) == timestamp - last >= speed

----------------------------------------------------------------------------
(* Variant A *)

\* a plausible slip: the ripples are seeded before the generation is computed
stepGridSeedFirst(g, rs, n) ==
  nextGeneration(applyRipplesToGrid(g, rs, n), n)

\* nextGeneration(); applyRipplesToGrid(); as loop calls them in a tick
stepGrid(g, rs, n) ==
  applyRipplesToGrid(nextGeneration(g, n), rs, n)

\* timestamp - lastResetTime >= resetIntervalMs
ResetDue(timestamp, last) == timestamp - last >= resetIntervalMs

\* what the scatter leaves on an empty grid of variant A's size: a constant,
\* computed once
ScatteredA ==
  placeRandomNatureShapesScattered(createEmptyGrid(GridSizeA), GridSizeA)

\* the same on a grid of the size SpecLive runs on
ScatteredLive ==
  placeRandomNatureShapesScattered(createEmptyGrid(LiveGridSize), LiveGridSize)

\* a plausible slip: the shapes are scattered onto the grid as it is
resetGridKeep(g, n) == placeRandomNatureShapesScattered(g, n)

\* grid = createEmptyGrid(gridSize); placeRandomNatureShapesScattered();
\* the set of grids the reset may leave
resetGrid(g, n) ==
  IF n = GridSizeA THEN ScatteredA
  ELSE IF n = LiveGridSize THEN ScatteredLive
  ELSE placeRandomNatureShapesScattered(createEmptyGrid(n), n)

\* a plausible slip: the reset clears the ripples along with the grid
LoopAResetAll(timestamp) ==
  /\ variant = "A"
  /\ timestamp >= now
  /\ now' = timestamp
  /\ LET step == running /\ StepDue(timestamp, lastStepTime, speedMs)
         g1 == IF step THEN stepGrid(grid, ripples, gridSize) ELSE grid
         reset == running /\ ResetDue(timestamp, lastResetTime)
     IN /\ ripples' = IF reset THEN <<>>
                      ELSE IF step THEN updateRipples(ripples) ELSE ripples
        /\ lastStepTime' = IF step THEN timestamp ELSE lastStepTime
        /\ grid' \in IF reset THEN resetGrid(g1, gridSize) ELSE {g1}
        /\ lastResetTime' = IF reset THEN timestamp ELSE lastResetTime
        /\ drawn' = IF reset THEN grid' ELSE IF step THEN g1 ELSE drawn
        /\ Hist("loop", IF step THEN 1 ELSE 0, IF reset THEN 1 ELSE 0,
                <<timestamp>>)
  /\ UNCHANGED <<variant, gridSize, canvasWidth, cellSize, running, speedMs>>

LoopA(timestamp) ==
  /\ variant = "A"
  /\ timestamp >= now
  /\ now' = timestamp
  /\ LET step == running /\ StepDue(timestamp, lastStepTime, speedMs)
         g1 == IF step THEN stepGrid(grid, ripples, gridSize) ELSE grid
         reset == running /\ ResetDue(timestamp, lastResetTime)
     IN /\ ripples' = IF step THEN updateRipples(ripples) ELSE ripples
        /\ lastStepTime' = IF step THEN timestamp ELSE lastStepTime
        /\ grid' \in IF reset THEN resetGrid(g1, gridSize) ELSE {g1}
        /\ lastResetTime' = IF reset THEN timestamp ELSE lastResetTime
        /\ drawn' = IF reset THEN grid' ELSE IF step THEN g1 ELSE drawn
        /\ Hist("loop", IF step THEN 1 ELSE 0, IF reset THEN 1 ELSE 0,
                <<timestamp>>)
  /\ UNCHANGED <<variant, gridSize, canvasWidth, cellSize, running, speedMs>>

\* a plausible slip: off by one at the far edge
InGridLoose(gridX, gridY, n) ==
  gridX >= 0 /\ gridX <= n /\ gridY >= 0 /\ gridY <= n

\* the gridX (gridY) test of the click handlers
InGrid(gridX, gridY, n) ==
  gridX >= 0 /\ gridX < n /\ gridY >= 0 /\ gridY < n

ClickA(offsetX, offsetY, rectWidth) ==
  /\ variant = "A"
  /\ LET gridX == GridCoord(offsetX, rectWidth, canvasWidth, cellSize)
         gridY == GridCoord(offsetY, rectWidth, canvasWidth, cellSize)
     IN /\ ripples' = IF InGrid(gridX, gridY, gridSize)
                      THEN spawnRipple(ripples, gridX, gridY)
                      ELSE ripples
        /\ Hist("click", 0, 0, <<gridX, gridY>>)
  /\ UNCHANGED <<variant, gridSize, canvasWidth, cellSize, grid, running,
                 speedMs, lastStepTime, lastResetTime, drawn, now>>

\* init(), for the window.innerWidth it finds; performance.now() is 0
InitA(innerWidth) ==
  /\ variant = "A"
  /\ gridSize = GridSizeA
  /\ canvasWidth = FitWidth(innerWidth)
  /\ cellSize = <<canvasWidth, gridSize>>
  /\ grid = placeWordANDER(createEmptyGrid(gridSize), gridSize)
  /\ running = TRUE
  /\ speedMs = speedMsA
  /\ now = 0
  /\ lastStepTime = now
  /\ lastResetTime = now
  /\ ripples = <<>>
  /\ drawn = grid
  /\ op = "init" /\ nSteps = 0 /\ nResets = 0
  /\ grid0 = grid /\ ripples0 = <<>> /\ arg = <<innerWidth>>

----------------------------------------------------------------------------
(* Variant B *)

\* the values grid[y][x] = Math.random() < 0.25 ? 1 : 0 may store
RandomCells == {IF 4 * k < RandomDen THEN 1 ELSE 0 : k \in 0 .. (RandomDen - 1)}

\* the set of grids randomizeGrid may leave
randomizeGrid(n) == [Idx(n) -> [Idx(n) -> RandomCells]]

\* the values of the grid-size select and of the speed range
GridSizeOptions == 1 .. MaxGridSizeB
SpeedOptions == {speedMsB, speedMsA}

\* a plausible slip: the running flag is not looked at
LoopBAlways(timestamp) ==
  /\ variant = "B"
  /\ timestamp >= now
  /\ now' = timestamp
  /\ LET step == StepDue(timestamp, lastStepTime, speedMs)
     IN /\ grid' = IF step THEN nextGeneration(grid, gridSize) ELSE grid
        /\ drawn' = IF step THEN grid' ELSE drawn
        /\ lastStepTime' = IF step THEN timestamp ELSE lastStepTime
        /\ Hist("loop", IF step THEN 1 ELSE 0, 0, <<timestamp>>)
  /\ UNCHANGED <<variant, gridSize, canvasWidth, cellSize, running, speedMs,
                 lastResetTime, ripples>>

LoopB(timestamp) ==
  /\ variant = "B"
  /\ timestamp >= now
  /\ now' = timestamp
  /\ LET step == running /\ StepDue(timestamp, lastStepTime, speedMs)
     IN /\ grid' = IF step THEN nextGeneration(grid, gridSize) ELSE grid
        /\ drawn' = IF step THEN grid' ELSE drawn
        /\ lastStepTime' = IF step THEN timestamp ELSE lastStepTime
        /\ Hist("loop", IF step THEN 1 ELSE 0, 0, <<timestamp>>)
  /\ UNCHANGED <<variant, gridSize, canvasWidth, cellSize, running, speedMs,
                 lastResetTime, ripples>>

StartBtn ==
  /\ variant = "B"
  /\ running' = TRUE
  /\ Hist("start", 0, 0, <<>>)
  /\ UNCHANGED <<variant, gridSize, canvasWidth, cellSize, grid, speedMs,
                 lastStepTime, lastResetTime, ripples, drawn, now>>

PauseBtn ==
  /\ variant = "B"
  /\ running' = FALSE
  /\ Hist("pause", 0, 0, <<>>)
  /\ UNCHANGED <<variant, gridSize, canvasWidth, cellSize, grid, speedMs,
                 lastStepTime, lastResetTime, ripples, drawn, now>>

\* a plausible slip: the step button leaves the loop running
StepBtnKeep ==
  /\ variant = "B"
  /\ grid' = nextGeneration(grid, gridSize)
  /\ drawn' = grid'
  /\ Hist("step", 1, 0, <<running>>)
  /\ UNCHANGED <<variant, gridSize, canvasWidth, cellSize, running, speedMs,
                 lastStepTime, lastResetTime, ripples, now>>

StepBtn ==
  /\ variant = "B"
  /\ running' = FALSE
  /\ grid' = nextGeneration(grid, gridSize)
  /\ drawn' = grid'
  /\ Hist("step", 1, 0, <<running>>)
  /\ UNCHANGED <<variant, gridSize, canvasWidth, cellSize, speedMs,
                 lastStepTime, lastResetTime, ripples, now>>

\* a plausible slip: the cleared grid is not drawn
ClearBtnStale ==
  /\ variant = "B"
  /\ running' = FALSE
  /\ grid' = createEmptyGrid(gridSize)
  /\ Hist("clear", 0, 0, <<running>>)
  /\ UNCHANGED <<variant, gridSize, canvasWidth, cellSize, speedMs,
                 lastStepTime, lastResetTime, ripples, drawn, now>>

ClearBtn ==
  /\ variant = "B"
  /\ running' = FALSE
  /\ grid' = createEmptyGrid(gridSize)
  /\ drawn' = grid'
  /\ Hist("clear", 0, 0, <<running>>)
  /\ UNCHANGED <<variant, gridSize, canvasWidth, cellSize, speedMs,
                 lastStepTime, lastResetTime, ripples, now>>

RandomBtn ==
  /\ variant = "B"
  /\ grid' \in randomizeGrid(gridSize)
  /\ drawn' = grid'
  /\ Hist("random", 0, 0, <<>>)
  /\ UNCHANGED <<variant, gridSize, canvasWidth, cellSize, running, speedMs,
                 lastStepTime, lastResetTime, ripples, now>>

\* a plausible slip: the grid is not reallocated for the new size
GridSizeChangeKeep(size, innerWidth) ==
  /\ variant = "B"
  /\ gridSize' = size
  /\ canvasWidth' = FitWidth(innerWidth)
  /\ cellSize' = <<canvasWidth', gridSize'>>
  /\ drawn' = grid
  /\ Hist("size", 0, 0, <<size>>)
  /\ UNCHANGED <<variant, grid, running, speedMs, lastStepTime, lastResetTime,
                 ripples, now>>

\* the change listener of gridSizeSelect; resizeCanvas reads the width anew
GridSizeChange(size, innerWidth) ==
  /\ variant = "B"
  /\ gridSize' = size
  /\ grid' = createEmptyGrid(gridSize')
  /\ canvasWidth' = FitWidth(innerWidth)
  /\ cellSize' = <<canvasWidth', gridSize'>>
  /\ drawn' = grid'
  /\ Hist("size", 0, 0, <<size>>)
  /\ UNCHANGED <<variant, running, speedMs, lastStepTime, lastResetTime,
                 ripples, now>>

SpeedInput(value) ==
  /\ variant = "B"
  /\ speedMs' = value
  /\ Hist("speed", 0, 0, <<value>>)
  /\ UNCHANGED <<variant, gridSize, canvasWidth, cellSize, grid, running,
                 lastStepTime, lastResetTime, ripples, drawn, now>>

\* a plausible slip: a click sets the cell alive, it does not toggle it
ClickBSet(offsetX, offsetY, rectWidth) ==
  /\ variant = "B"
  /\ LET gridX == GridCoord(offsetX, rectWidth, canvasWidth, cellSize)
         gridY == GridCoord(offsetY, rectWidth, canvasWidth, cellSize)
         hit == InGrid(gridX, gridY, gridSize)
     IN /\ grid' = IF hit THEN [grid EXCEPT ![gridY][gridX] = 1] ELSE grid
        /\ drawn' = IF hit THEN grid' ELSE drawn
        /\ Hist("click", 0, 0, <<gridX, gridY>>)
  /\ UNCHANGED <<variant, gridSize, canvasWidth, cellSize, running, speedMs,
                 lastStepTime, lastResetTime, ripples, now>>

ClickB(offsetX, offsetY, rectWidth) ==
  /\ variant = "B"
  /\ LET gridX == GridCoord(offsetX, rectWidth, canvasWidth, cellSize)
         gridY == GridCoord(offsetY, rectWidth, canvasWidth, cellSize)
         hit == InGrid(gridX, gridY, gridSize)
     IN /\ grid' = IF hit
                   THEN [grid EXCEPT ![gridY][gridX] = IF @ = 1 THEN 0 ELSE 1]
                   ELSE grid
        /\ drawn' = IF hit THEN grid' ELSE drawn
        /\ Hist("click", 0, 0, <<gridX, gridY>>)
  /\ UNCHANGED <<variant, gridSize, canvasWidth, cellSize, running, speedMs,
                 lastStepTime, lastResetTime, ripples, now>>

\* init(), at the default gridSize, for the window.innerWidth it finds
InitB(innerWidth) ==
  /\ variant = "B"
  /\ gridSize = MaxGridSizeB
  /\ canvasWidth = FitWidth(innerWidth)
  /\ cellSize = <<canvasWidth, gridSize>>
  /\ grid = createEmptyGrid(gridSize)
  /\ running = FALSE
  /\ speedMs = speedMsB
  /\ now = 0
  /\ lastStepTime = 0
  /\ lastResetTime = 0
  /\ ripples = <<>>
  /\ drawn = grid
  /\ op = "init" /\ nSteps = 0 /\ nResets = 0
  /\ grid0 = grid /\ ripples0 = <<>> /\ arg = <<innerWidth>>

----------------------------------------------------------------------------
(* The program: both variants, from construction, under every event *)

\* the timestamps the next frame callback may carry, up to the frame maxFrame
Timestamps(maxFrame) ==
  {t \in {now + k * FrameMs : k \in 0 .. MaxFrameSkip} : t <= maxFrame * FrameMs}

Init == \E innerWidth \in InnerWidths : InitA(innerWidth) \/ InitB(innerWidth)

Next ==
  \/ \E timestamp \in Timestamps(MaxFrames) : LoopA(timestamp)
  \/ \E timestamp \in Timestamps(MaxFramesB) : LoopB(timestamp)
  \/ \E innerWidth \in InnerWidths : ResizeCanvas(innerWidth)
  \/ \E rectWidth \in RectWidths(canvasWidth) :
       \E offsetX, offsetY \in ClickOffsets(rectWidth) :
         /\ Len(ripples) < MaxRipples
         /\ ClickA(offsetX, offsetY, rectWidth)
  \/ \E rectWidth \in RectWidths(canvasWidth) :
       \E offsetX, offsetY \in ClickOffsets(rectWidth) :
         ClickB(offsetX, offsetY, rectWidth)
  \/ StartBtn
  \/ PauseBtn
  \/ StepBtn
  \/ ClearBtn
  \/ RandomBtn
  \/ \E size \in GridSizeOptions, innerWidth \in InnerWidths :
       GridSizeChange(size, innerWidth)
  \/ \E value \in SpeedOptions : SpeedInput(value)

Spec == Init /\ [][Next]_vars

----------------------------------------------------------------------------
(* The Game of Life functions on every small grid: the initial states are   *)
(* all grids of either variant, and one handler that steps is run on each.  *)

AllGrids(n) == [Idx(n) -> [Idx(n) -> {0, 1}]]

\* a state of variant v with the grid g of size n, no ripple, the clock at 0
Drawn(v, n, g, rs) ==
  /\ variant = v
  /\ gridSize = n
  /\ canvasWidth = MaxCanvasWidth
  /\ cellSize = <<canvasWidth, gridSize>>
  /\ grid = g
  /\ running = TRUE
  /\ speedMs = IF v = "A" THEN speedMsA ELSE speedMsB
  /\ now = 0
  /\ lastStepTime = 0
  /\ lastResetTime = 0
  /\ ripples = rs
  /\ drawn = g
  /\ op = "init" /\ nSteps = 0 /\ nResets = 0
  /\ grid0 = g /\ ripples0 = rs /\ arg = <<>>

InitLife ==
  \/ \E n \in 1 .. MaxPureSize : \E g \in AllGrids(n) : Drawn("A", n, g, <<>>)
  \/ \E n \in 1 .. MaxPureSizeB : \E g \in AllGrids(n) : Drawn("B", n, g, <<>>)

\* the timestamps of the first frame callback in which a generation is due
FirstDue ==
  {t \in Timestamps(MaxFrameSkip) :
     /\ StepDue(t, lastStepTime, speedMs)
     /\ ~StepDue(t - FrameMs, lastStepTime, speedMs)}

NextLife ==
  \/ op = "init" /\ \E timestamp \in FirstDue : LoopA(timestamp)
  \/ op = "init" /\ \E timestamp \in FirstDue : LoopB(timestamp)
  \/ op = "init" /\ StepBtn

SpecLife == InitLife /\ [][NextLife]_vars

\* the cells of an n x n grid, as <<x, y>>
Cells(n) == Idx(n) \X Idx(n)

\* the alive cells of g among the up to 8 in-grid cells around (x, y)
LiveAround(g, x, y, n) ==
  {c \in (Max(0, x - 1) .. Min(n - 1, x + 1))
            \X (Max(0, y - 1) .. Min(n - 1, y + 1)) :
     c # <<x, y>> /\ g[c[2]][c[1]] = 1}

\* Conway's rule for the cell (x, y) of g
LifeRule(g, x, y, n) ==
  LET k == Cardinality(LiveAround(g, x, y, n))
  IN IF (g[y][x] = 1 /\ k \in {2, 3}) \/ (g[y][x] = 0 /\ k = 3) THEN 1 ELSE 0

IsGrid(g, n) ==
  /\ DOMAIN g = Idx(n)
  /\ \A y \in Idx(n) : DOMAIN g[y] = Idx(n) /\ \A x \in Idx(n) : g[y][x] \in {0, 1}

\* C1: a handler that runs nextGeneration once (the loop of either variant
\* with no ripple and no reset, the step button) replaces the grid by a new
\* N x N grid in which a cell is alive iff it was alive with 2 or 3 live
\* neighbours or dead with exactly 3, all counted in the grid as it was
\* before the step; every other cell is dead.
C1_NextGenerationRule ==
  (nSteps = 1 /\ nResets = 0 /\ ripples0 = <<>>) =>
    /\ IsGrid(grid, gridSize)
    /\ \A c \in Cells(gridSize) :
         grid[c[2]][c[1]] = LifeRule(grid0, c[1], c[2], gridSize)

\* a step in which a live cell with 4 neighbours died, a dead cell with 2
\* stayed dead, a dead cell with 3 was born and a live cell survived
C1_Witness ==
  /\ op = "loop" /\ variant = "A" /\ nSteps = 1 /\ nResets = 0
  /\ \E c \in Cells(gridSize) :
       /\ grid0[c[2]][c[1]] = 1 /\ grid[c[2]][c[1]] = 0
       /\ Cardinality(LiveAround(grid0, c[1], c[2], gridSize)) = 4
  /\ \E c \in Cells(gridSize) :
       /\ grid0[c[2]][c[1]] = 0 /\ grid[c[2]][c[1]] = 0
       /\ Cardinality(LiveAround(grid0, c[1], c[2], gridSize)) = 2
  /\ \E c \in Cells(gridSize) : grid0[c[2]][c[1]] = 0 /\ grid[c[2]][c[1]] = 1
  /\ \E c \in Cells(gridSize) : grid0[c[2]][c[1]] = 1 /\ grid[c[2]][c[1]] = 1

IsCorner(x, y, n) == x \in {0, n - 1} /\ y \in {0, n - 1}
IsEdge(x, y, n) == x \in {0, n - 1} \/ y \in {0, n - 1}

\* C2: for every grid and every cell (x, y) of it, countNeighbors is the
\* number of alive cells among the in-grid cells around (x, y), the cell
\* itself and the positions outside the grid left out: a number in 0..8, at
\* most 3 for a corner cell and at most 5 for an edge cell.
C2_CountNeighbors ==
  \A c \in Cells(gridSize) :
    \A count \in {countNeighbors(grid, c[1], c[2], gridSize)} :
       /\ count = Cardinality(LiveAround(grid, c[1], c[2], gridSize))
       /\ count \in 0 .. 8
       /\ IsCorner(c[1], c[2], gridSize) => count <= 3
       /\ IsEdge(c[1], c[2], gridSize) => count <= 5

\* a step from the full 3 x 3 grid: 8 around the centre, 3 around a corner,
\* 5 on an edge, so that only the corners are alive afterwards
C2_Witness ==
  /\ gridSize = 3 /\ nSteps = 1 /\ nResets = 0
  /\ \A c \in Cells(gridSize) : grid0[c[2]][c[1]] = 1
  /\ countNeighbors(grid0, 1, 1, gridSize) = 8
  /\ countNeighbors(grid0, 0, 0, gridSize) = 3
  /\ countNeighbors(grid0, 1, 0, gridSize) = 5
  /\ \A c \in Cells(gridSize) :
       grid[c[2]][c[1]] = IF IsCorner(c[1], c[2], gridSize) THEN 1 ELSE 0

----------------------------------------------------------------------------
(* Claims about a generation tick of variant A, under Spec *)

\* the cells a ripple lights: its centre at age 0, else the in-grid cells
\* whose squared distance d2 from the centre has age - 0.5 <= sqrt(d2) <=
\* age + 0.5, that is age^2 - age + 1 <= d2 <= age^2 + age for an integer d2
RingCells(r, n) ==
  {c \in Cells(n) :
     LET d2 == (c[1] - r.x) * (c[1] - r.x) + (c[2] - r.y) * (c[2] - r.y)
     IN IF r.age = 0 THEN d2 = 0
        ELSE d2 >= r.age * r.age - r.age + 1 /\ d2 <= r.age * r.age + r.age}

\* the cells the ripples rs light
RippleCells(rs, n) == UNION {RingCells(rs[i], n) : i \in 1 .. Len(rs)}

\* g with the cells of S set alive
Seeded(g, S, n) ==
  [y \in Idx(n) |-> [x \in Idx(n) |-> IF <<x, y>> \in S THEN 1 ELSE g[y][x]]]

StepTick == variant = "A" /\ op = "loop" /\ nSteps = 1 /\ nResets = 0

\* C3 (as amended): in a generation tick of variant A the Game of Life step
\* is computed first, on the grid as the tick found it; the active ripples'
\* cells are then set alive in the stepped grid, and that grid is rendered.
\* A ripple cell is alive in the rendered grid whatever the rule says of it.
C3_StepThenSeed ==
  StepTick =>
    /\ \A c \in Cells(gridSize) :
         grid[c[2]][c[1]] =
           IF c \in RippleCells(ripples0, gridSize) THEN 1
           ELSE LifeRule(grid0, c[1], c[2], gridSize)
    /\ drawn = grid

\* C3 as claimed: the ripples' cells are set alive before the step, so that
\* the rendered grid is the stepper's output on the ripple-seeded grid
C3_SeedThenStep ==
  StepTick =>
    \A c \in Cells(gridSize) :
      drawn[c[2]][c[1]] =
        LifeRule(Seeded(grid0, RippleCells(ripples0, gridSize), gridSize),
                 c[1], c[2], gridSize)

\* a tick that rendered a ripple cell which the rule leaves dead, both on the
\* grid as it was and on the ripple-seeded grid
C3_Witness ==
  /\ StepTick
  /\ \E c \in RippleCells(ripples0, gridSize) :
       /\ drawn[c[2]][c[1]] = 1
       /\ LifeRule(grid0, c[1], c[2], gridSize) = 0
       /\ LifeRule(Seeded(grid0, RippleCells(ripples0, gridSize), gridSize),
                   c[1], c[2], gridSize) = 0

----------------------------------------------------------------------------
(* The ripple ring: grids of variant A with a single ripple on any cell, at *)
(* any age, and one generation tick on each.                                *)

\* the ripples a click may have spawned at (x, y), at every age they live to
RipplesAt(C) ==
  {[x |-> c[1], y |-> c[2], age |-> a, maxAge |-> maxAge] :
     c \in C, a \in 0 .. maxAge}

\* the grids of size n whose rows are each all dead or all alive
RowGrids(n) ==
  {[y \in Idx(n) |-> [x \in Idx(n) |-> b[y]]] : b \in [Idx(n) -> {0, 1}]}

InitRing ==
  \E g \in RowGrids(RingGridSize), r \in RipplesAt(Cells(RingGridSize)) :
    Drawn("A", RingGridSize, g, <<r>>)

\* the first frame callback in which a generation is due
NextRing == op = "init" /\ \E timestamp \in FirstDue : LoopA(timestamp)

SpecRing == InitRing /\ [][NextRing]_vars

\* C4: applied for a single ripple with in-grid centre and age k, as a tick
\* applies it to the stepped grid, applyRipplesToGrid sets alive exactly the
\* centre if k = 0, and if k > 0 exactly the in-grid cells at a distance d
\* from the centre with k - 0.5 <= d <= k + 0.5; it sets no cell dead and
\* every other cell keeps the value the step gave it.
C4_RippleRing ==
  (StepTick /\ Len(ripples0) = 1) =>
    LET r == ripples0[1]
        stepped == nextGeneration(grid0, gridSize)
    IN \A c \in Cells(gridSize) :
         LET dx == c[1] - r.x
             dy == c[2] - r.y
             lit == IF r.age = 0 THEN dx = 0 /\ dy = 0
                    ELSE /\ (2 * r.age - 1) * (2 * r.age - 1) <= 4 * (dx * dx + dy * dy)
                         /\ 4 * (dx * dx + dy * dy) <= (2 * r.age + 1) * (2 * r.age + 1)
         IN grid[c[2]][c[1]] = IF lit THEN 1 ELSE stepped[c[2]][c[1]]

\* a ripple of age 2 in the middle of a 5 x 5 grid: the cells two away along
\* an axis and a knight's move away are lit, the centre and the cells next to
\* it are not; the corner (0, 0), outside the ring, stays alive as the step
\* left it and the corner (4, 4) stays dead
C4_Witness ==
  /\ StepTick /\ Len(ripples0) = 1 /\ gridSize = 5
  /\ ripples0[1].age = 2 /\ ripples0[1].x = 2 /\ ripples0[1].y = 2
  /\ nextGeneration(grid0, gridSize)[2][4] = 0 /\ grid[2][4] = 1
  /\ grid[3][4] = 1 /\ grid[0][2] = 1 /\ grid[4][1] = 1
  /\ grid[2][2] = 0 /\ grid[1][1] = 0 /\ grid[2][3] = 0
  /\ nextGeneration(grid0, gridSize)[0][0] = 1 /\ grid[0][0] = 1
  /\ grid[4][4] = 0

----------------------------------------------------------------------------
(* The ripple lifecycle: every list of up to MaxInitRipples ripples centred *)
(* on the corner cell, at every age, under ticks and under clicks on that   *)
(* cell and left of the canvas.                                             *)

RECURSIVE SeqsUpTo(_, _)
SeqsUpTo(S, k) ==
  IF k = 0 THEN {<<>>}
  ELSE LET shorter == SeqsUpTo(S, k - 1)
       IN shorter \cup {Append(q, e) : q \in shorter, e \in S}

InitAge ==
  \E rs \in SeqsUpTo(RipplesAt({<<0, 0>>}), MaxInitRipples) :
    Drawn("A", AgeGridSize, createEmptyGrid(AgeGridSize), rs)

NextAge ==
  \/ \E timestamp \in Timestamps(MaxFrameSkip) : LoopA(timestamp)
  \/ \E rectWidth \in RectWidths(canvasWidth) :
       \E offsetX \in {-1, 0} :
         /\ Len(ripples) < MaxInitRipples
         /\ ClickA(offsetX, 0, rectWidth)

SpecAge == InitAge /\ [][NextAge]_vars

\* the ripples of rs that a tick keeps, each one tick older, in their order
RECURSIVE AgedKept(_)
AgedKept(rs) ==
  IF rs = <<>> THEN <<>>
  ELSE LET r == Head(rs)
       IN (IF r.age + 1 > 10 THEN <<>> ELSE <<[r EXCEPT !.age = r.age + 1]>>)
          \o AgedKept(Tail(rs))

\* C5: a ripple is created with age 0 and maxAge 10; a generation tick makes
\* every active ripple exactly one tick older and removes exactly those whose
\* age has become greater than 10, keeping all the others in their order; and
\* between callbacks every active ripple has 0 <= age <= maxAge = 10.
C5_RippleLifecycle ==
  /\ \A i \in 1 .. Len(ripples) :
       ripples[i].maxAge = 10 /\ ripples[i].age >= 0 /\ ripples[i].age <= 10
  /\ (op = "loop" /\ nSteps = 1) => ripples = AgedKept(ripples0)
  /\ (op = "loop" /\ nSteps = 0) => ripples = ripples0
  /\ (op = "click" /\ ripples # ripples0) =>
       /\ Len(ripples) = Len(ripples0) + 1
       /\ SubSeq(ripples, 1, Len(ripples0)) = ripples0
       /\ ripples[Len(ripples)].age = 0
       /\ ripples[Len(ripples)].maxAge = 10

\* a tick in which the first and the last of three ripples expired together
\* and the middle one was kept
C5_Witness ==
  /\ op = "loop" /\ nSteps = 1
  /\ Len(ripples0) = 3 /\ Len(ripples) = 1
  /\ ripples0[1].age = 10 /\ ripples0[3].age = 10
  /\ ripples[1] = [ripples0[2] EXCEPT !.age = ripples0[2].age + 1]

----------------------------------------------------------------------------
(* stampPattern on every small grid: the patterns of the program at every  *)
(* offset that reaches the grid, and past it.                              *)

\* stampPattern(pattern, offsetX, offsetY), called on the grid as it is
StampPattern(pattern, offsetX, offsetY) ==
  /\ grid' = stampPattern(grid, pattern, offsetX, offsetY, gridSize)
  /\ Hist("stamp", 0, 0, <<pattern, offsetX, offsetY>>)
  /\ UNCHANGED <<variant, gridSize, canvasWidth, cellSize, running, speedMs,
                 lastStepTime, lastResetTime, ripples, drawn, now>>

Patterns ==
  {LETTERS[l] : l \in DOMAIN LETTERS} \cup {SHAPES[name] : name \in DOMAIN SHAPES}

InitStamp ==
  \E g \in AllGrids(StampGridSize) : Drawn("A", StampGridSize, g, <<>>)

NextStamp ==
  op = "init" /\ \E pattern \in Patterns, offsetX, offsetY \in (-MaxOffset) .. MaxOffset :
                   StampPattern(pattern, offsetX, offsetY)

SpecStamp == InitStamp /\ [][NextStamp]_vars

\* the in-grid cells under the alive marks of the pattern at the offset
MarkedCells(pattern, offsetX, offsetY, n) ==
  {c \in Cells(n) :
     \E y \in 1 .. Len(pattern) : \E x \in 1 .. Len(pattern[y]) :
       pattern[y][x] = 1 /\ c = <<offsetX + x - 1, offsetY + y - 1>>}

\* C6: after stampPattern(pattern, offsetX, offsetY), at any offset, negative
\* or past the grid's edge, a cell of the grid is alive iff it was alive
\* before or it is the in-grid cell (offsetX + x, offsetY + y) of an alive
\* mark of the pattern; marks falling outside the grid are ignored and no
\* alive cell is cleared.
C6_StampIsUnion ==
  op = "stamp" =>
    /\ IsGrid(grid, gridSize)
    /\ \A c \in Cells(gridSize) :
         grid[c[2]][c[1]] = 1 <=>
           \/ grid0[c[2]][c[1]] = 1
           \/ c \in MarkedCells(arg[1], arg[2], arg[3], gridSize)

\* a stamp at a negative offset whose pattern reaches past the far edge too:
\* it lit a dead cell, and an alive cell under a dead mark stayed alive
C6_Witness ==
  /\ op = "stamp"
  /\ arg[2] < 0 /\ arg[2] + Len(arg[1][1]) > gridSize
  /\ \E c \in Cells(gridSize) : grid0[c[2]][c[1]] = 0 /\ grid[c[2]][c[1]] = 1
  /\ \E c \in Cells(gridSize) :
       /\ grid0[c[2]][c[1]] = 1 /\ grid[c[2]][c[1]] = 1
       /\ c \notin MarkedCells(arg[1], arg[2], arg[3], gridSize)
       /\ c[1] - arg[2] \in 0 .. (Len(arg[1][1]) - 1)
       /\ c[2] - arg[3] \in 0 .. (Len(arg[1]) - 1)

----------------------------------------------------------------------------
(* Claims about the frame loop and the events, under Spec *)

\* C7: an invocation of the frame loop makes at most one generation step and
\* at most one periodic reset.  It steps only if running is true and
\* timestamp - lastStepTime >= speedMs, and lastStepTime is then that
\* timestamp; no other handler and no invocation that does not step changes
\* lastStepTime, so that two consecutive loop-driven steps are at least
\* speedMs apart.  An invocation that neither steps nor resets leaves the
\* grid as it is.
C7_StepGate ==
  [][ /\ op' = "loop" =>
           /\ nSteps' \in {0, 1} /\ nResets' \in {0, 1}
           /\ nSteps' = 1 =>
                /\ running
                /\ now' - lastStepTime >= speedMs
                /\ lastStepTime' = now'
                /\ lastStepTime' - lastStepTime >= speedMs
           /\ nSteps' = 0 => lastStepTime' = lastStepTime
           /\ (nSteps' = 0 /\ nResets' = 0) => grid' = grid /\ ripples' = ripples
      /\ op' # "loop" => lastStepTime' = lastStepTime /\ (nSteps' = 1 => op' = "step")
    ]_vars

\* the second loop-driven step of variant A, speedMs after the first, and
\* with it the earliest time at which it can happen
C7_Witness ==
  /\ variant = "A" /\ op = "loop" /\ nSteps = 1
  /\ now = 2 * speedMsA /\ lastStepTime = now

\* Math.floor(Math.random() * m) over every value Math.random() may take
FloorRange(m) == IF m > 0 THEN 0 .. (m - 1) ELSE m .. 0

\* the in-grid cells a shape can mark, at each place the scatter can put it
ShapeImages(n) ==
  UNION {
    {MarkedCells(SHAPES[name], startX, startY, n) :
       startX \in FloorRange(n - Len(SHAPES[name][1])),
       startY \in FloorRange(n - Len(SHAPES[name]))}
    : name \in DOMAIN SHAPES }

\* the images on a grid of variant A's size
ShapeImagesA == ShapeImages(GridSizeA)

AliveCells(g, n) == {c \in Cells(n) : g[c[2]][c[1]] = 1}

\* C8: in variant A every loop invocation with timestamp - lastResetTime >=
\* resetIntervalMs, whether it also steps or not, replaces the grid by an N x N
\* grid in which a cell is alive only if a scattered shape marks it (every
\* alive cell lies in the image of a shape all of whose marks are alive), and
\* sets lastResetTime to the timestamp; nothing else changes lastResetTime,
\* so two resets are at least resetIntervalMs apart.
C8_PeriodicReset ==
  [][ (variant = "A" /\ gridSize = GridSizeA) =>
        /\ (op' = "loop" /\ now' - lastResetTime >= resetIntervalMs) =>
             /\ nResets' = 1
             /\ lastResetTime' = now'
             /\ IsGrid(grid', gridSize)
             /\ \A c \in AliveCells(grid', gridSize) :
                  \E image \in ShapeImagesA :
                    c \in image /\ image \subseteq AliveCells(grid', gridSize)
             /\ drawn' = grid'
        /\ nResets' = 1 =>
             op' = "loop" /\ lastResetTime' - lastResetTime >= resetIntervalMs
        /\ nResets' = 0 => lastResetTime' = lastResetTime
    ]_vars

\* a reset in an invocation that did not step, and one that wiped an alive
\* cell of the grid it found
C8_Witness ==
  /\ variant = "A" /\ op = "loop" /\ nResets = 1 /\ nSteps = 0
  /\ lastResetTime = now
  /\ \E c \in Cells(gridSize) : grid0[c[2]][c[1]] = 1 /\ grid[c[2]][c[1]] = 0

\* C9: after initialisation and after every handler the grid is an N x N
\* array of cells in {0, 1} for the current gridSize; a resize notification
\* changes the canvas width and the cell size only, leaving gridSize and
\* every cell as they are; a grid-size selection sets gridSize and leaves an
\* all-dead gridSize x gridSize grid, in the one handler.
C9_GridShape ==
  /\ [](IsGrid(grid, gridSize) /\ cellSize = <<canvasWidth, gridSize>>)
  /\ [][ /\ op' = "resize" =>
              UNCHANGED <<gridSize, grid, running, speedMs, ripples,
                          lastStepTime, lastResetTime>>
         /\ op' = "size" =>
              /\ gridSize' = arg'[1]
              /\ grid' = [y \in Idx(gridSize') |-> [x \in Idx(gridSize') |-> 0]]
         /\ op' \notin {"size"} => gridSize' = gridSize
       ]_vars

\* a grid-size selection that changed gridSize while cells were alive, on a
\* canvas that a resize had made narrower
C9_Witness ==
  /\ op = "size" /\ DOMAIN grid0 # DOMAIN grid
  /\ \E y \in DOMAIN grid0 : \E x \in DOMAIN grid0[y] : grid0[y][x] = 1
  /\ canvasWidth # MaxCanvasWidth

\* C10: a click whose grid coordinates fall outside the grid changes nothing,
\* in either variant; every active ripple has its centre inside the grid; an
\* in-bounds click of variant A appends one ripple of age 0 at the clicked
\* cell and leaves the grid, and what is drawn, as they are.
C10_ClickBounds ==
  /\ [](\A i \in 1 .. Len(ripples) :
          /\ ripples[i].x \in Idx(gridSize)
          /\ ripples[i].y \in Idx(gridSize))
  /\ [][ op' = "click" =>
           IF arg'[1] \in Idx(gridSize) /\ arg'[2] \in Idx(gridSize)
           THEN variant = "A" =>
                  /\ ripples' = ripples \o
                       << [x |-> arg'[1], y |-> arg'[2], age |-> 0, maxAge |-> 10] >>
                  /\ UNCHANGED <<variant, gridSize, canvasWidth, cellSize,
                                 grid, running, speedMs, lastStepTime,
                                 lastResetTime, drawn, now>>
           ELSE UNCHANGED <<variant, gridSize, canvasWidth, cellSize, grid,
                            running, speedMs, lastStepTime, lastResetTime,
                            ripples, drawn, now>>
       ]_vars

\* a click past the far edge of the canvas of variant A (gridX = gridSize)
\* while a cell is alive, which spawned nothing
C10_Witness ==
  /\ variant = "A" /\ op = "click"
  /\ arg[1] = gridSize /\ arg[2] \in Idx(gridSize)
  /\ ripples = <<>> /\ ripples0 = <<>>
  /\ AliveCells(grid, gridSize) # {}

\* C11: what was last drawn is the grid as it is, after initialisation and
\* after every handler: a handler that changes the grid (a loop invocation
\* that steps or resets, a cell toggle, step, clear, randomize and grid-size
\* change of variant B) draws it before it returns, a handler that draws
\* nothing leaves the grid as it found it, and a loop invocation that both
\* steps and resets ends with the reset grid drawn.
C11_RedrawSynchronous ==
  /\ drawn = grid
  /\ grid # grid0 => op \in {"loop", "click", "step", "clear", "random", "size"}

\* a loop invocation of variant A that stepped and reset: the grid drawn
\* last is the scattered one, which is neither the grid the invocation found
\* nor the grid its step left
C11_Witness ==
  /\ variant = "A" /\ op = "loop" /\ nSteps = 1 /\ nResets = 1
  /\ drawn = grid /\ grid # grid0
  /\ grid # stepGrid(grid0, ripples0, gridSize)

----------------------------------------------------------------------------
(* Repeated stepping: a blinker, or the single centre cell of a 3 x 3 grid, *)
(* under the handlers that step, with no ripple and before any reset.       *)

\* the n x n grid whose alive cells are the row (horizontal) or the column
\* of 3 cells centred on (cx, cy)
BlinkerGrid(n, cx, cy, horizontal) ==
  [y \in Idx(n) |-> [x \in Idx(n) |->
    IF horizontal THEN (IF y = cy /\ x >= cx - 1 /\ x <= cx + 1 THEN 1 ELSE 0)
    ELSE (IF x = cx /\ y >= cy - 1 /\ y <= cy + 1 THEN 1 ELSE 0)]]

\* the blinkers <<cx, cy, horizontal>> of an n x n grid with at least one
\* dead cell between the 3 cells and every side of the grid
MarginBlinkers(n) ==
  {<<cx, cy, TRUE>> : cx \in 2 .. (n - 3), cy \in 1 .. (n - 2)}
    \cup {<<cx, cy, FALSE>> : cx \in 1 .. (n - 2), cy \in 2 .. (n - 3)}

\* the 3 x 3 grid whose only alive cell is the centre
CentreOnly == [y \in Idx(3) |-> [x \in Idx(3) |-> IF x = 1 /\ y = 1 THEN 1 ELSE 0]]

InitBlink ==
  \/ \E v \in {"A", "B"}, b \in MarginBlinkers(BlinkGridSize) :
       Drawn(v, BlinkGridSize, BlinkerGrid(BlinkGridSize, b[1], b[2], b[3]), <<>>)
  \/ \E v \in {"A", "B"} : Drawn(v, 3, CentreOnly, <<>>)

NextBlink ==
  \/ \E timestamp \in Timestamps(MaxBlinkFrames) : LoopA(timestamp)
  \/ \E timestamp \in Timestamps(MaxBlinkFrames) : LoopB(timestamp)
  \/ StepBtn
  \/ StartBtn

SpecBlink == InitBlink /\ [][NextBlink]_vars

\* C12: stepped with no ripple and nothing else touching the grid, a blinker
\* with a dead cell of margin on every side becomes the perpendicular row of
\* 3 through the same centre, which is another grid, and the step after that
\* gives back the grid the blinker started as (period 2); the 3 x 3 grid with
\* only its centre alive becomes all dead in one step, and the all-dead grid
\* stays all dead.
C12_BlinkerPeriod ==
  [][ nSteps' = 1 =>
        /\ \A b \in MarginBlinkers(gridSize) :
             grid = BlinkerGrid(gridSize, b[1], b[2], b[3]) =>
               /\ grid' = BlinkerGrid(gridSize, b[1], b[2], ~b[3])
               /\ grid' # grid
        /\ \A b \in MarginBlinkers(gridSize) :
             (nSteps = 1 /\ grid0 = BlinkerGrid(gridSize, b[1], b[2], b[3])) =>
               grid' = grid0 /\ grid' # grid
        /\ (gridSize = 3 /\ grid = CentreOnly) => grid' = createEmptyGrid(3)
        /\ grid = createEmptyGrid(gridSize) => grid' = grid
    ]_vars

\* the second step of variant A, on a blinker that lay one row below the top
\* of the grid: the first step stood it up against the top side, the second
\* laid it down again
C12_Witness ==
  /\ variant = "A" /\ op = "loop" /\ nSteps = 1
  /\ lastStepTime >= 2 * speedMsA
  /\ grid0 = BlinkerGrid(gridSize, 2, 1, FALSE)
  /\ grid = BlinkerGrid(gridSize, 2, 1, TRUE)

\* C13: a loop invocation that finds running false leaves the grid, the
\* ripples, lastStepTime, lastResetTime and what is drawn as they are, however
\* long ago the last step was; start and pause write the running flag and
\* nothing else, and step nothing themselves: after start it is the next loop
\* invocation in which a step is due that steps; and while running is false
\* the grid changes only in the step, clear, randomize, grid-size and
\* cell-toggle handlers.
C13_RunningFlag ==
  [][ /\ (op' = "loop" /\ ~running) =>
           /\ nSteps' = 0 /\ nResets' = 0
           /\ UNCHANGED <<grid, ripples, lastStepTime, lastResetTime, drawn,
                          running, gridSize, speedMs>>
      /\ op' \in {"start", "pause"} =>
           /\ running' = (op' = "start")
           /\ nSteps' = 0
           /\ UNCHANGED <<grid, ripples, lastStepTime, lastResetTime, drawn,
                          gridSize, speedMs, now>>
      /\ (op = "start" /\ op' = "loop") =>
           nSteps' = (IF now' - lastStepTime >= speedMs THEN 1 ELSE 0)
      /\ (~running /\ grid' # grid) =>
           op' \in {"step", "clear", "random", "size", "click"}
    ]_vars

\* a loop invocation of variant B that found running false long after a step
\* was due, on a grid that a step would have changed
C13_Witness ==
  /\ variant = "B" /\ op = "loop" /\ ~running
  /\ now - lastStepTime >= speedMs
  /\ nSteps = 0 /\ grid = grid0 /\ drawn = grid
  /\ nextGeneration(grid, gridSize) # grid

----------------------------------------------------------------------------
(* Several ripples at once: lists of up to MaxOrderRipples ripples centred  *)
(* on the diagonal of a grid of variant A, at the ages whose rings reach    *)
(* the grid, and one generation tick on each.                               *)

\* the all-dead grid and the all-alive one
OrderGrids(n) ==
  {[y \in Idx(n) |-> [x \in Idx(n) |-> v]] : v \in {0, 1}}

\* ripples on the diagonal, of the ages 0 .. n
OrderRipples(n) ==
  {[x |-> i, y |-> i, age |-> a, maxAge |-> maxAge] : i \in Idx(n), a \in 0 .. n}

InitOrder ==
  \E g \in OrderGrids(GridSizeA) :
    \E rs \in SeqsUpTo(OrderRipples(GridSizeA), MaxOrderRipples) :
      Drawn("A", GridSizeA, g, rs)

\* the first frame callback in which a generation is due
NextOrder == op = "init" /\ \E timestamp \in FirstDue : LoopA(timestamp)

SpecOrder == InitOrder /\ [][NextOrder]_vars

\* the lists that hold the elements of rs in another order
Reorderings(rs) ==
  {[i \in 1 .. Len(rs) |-> rs[p[i]]] :
     p \in {q \in [1 .. Len(rs) -> 1 .. Len(rs)] :
              \A i, j \in 1 .. Len(rs) : q[i] = q[j] => i = j}}

\* C14: the grid a tick leaves when it applies the active ripples to the
\* stepped grid is that grid with every cell of every ripple's own cell set
\* alive and every other cell as it was (the cell-wise OR); applying the
\* ripples in any other order gives the same grid; and applying the same
\* ripples once more, at the same ages, changes nothing.
C14_RipplesCommute ==
  StepTick =>
    LET stepped == nextGeneration(grid0, gridSize)
    IN /\ \A c \in Cells(gridSize) :
            grid[c[2]][c[1]] = 1 <=>
              \/ stepped[c[2]][c[1]] = 1
              \/ \E i \in 1 .. Len(ripples0) : c \in RingCells(ripples0[i], gridSize)
       /\ \A rs \in Reorderings(ripples0) :
            applyRipplesToGrid(stepped, rs, gridSize) = grid
       /\ applyRipplesToGrid(grid, ripples0, gridSize) = grid

\* a tick with two ripples whose rings cross in one cell and each light
\* cells the other does not, on a grid the step left with an alive cell
\* outside both rings and a dead cell inside one
C14_Witness ==
  /\ StepTick /\ Len(ripples0) = 2
  /\ LET A == RingCells(ripples0[1], gridSize)
         B == RingCells(ripples0[2], gridSize)
         stepped == nextGeneration(grid0, gridSize)
     IN /\ A \cap B # {} /\ A \ B # {} /\ B \ A # {}
        /\ \E c \in Cells(gridSize) \ (A \cup B) : stepped[c[2]][c[1]] = 1
        /\ \E c \in A \cup B : stepped[c[2]][c[1]] = 0
        /\ \A c \in A \cup B : grid[c[2]][c[1]] = 1

\* C15: in variant B the step button, whether it finds the loop running or
\* paused, sets running to false and replaces the grid by one application of
\* the Game of Life rule to it, and leaves lastStepTime as it is; the clear
\* button sets running to false and leaves an all-dead N x N grid for the
\* current N; randomize and a click on the canvas leave running as it is.
\* (arg holds the running flag the step and clear handlers found.)
C15_Controls ==
  [][ /\ op' = "step" =>
           /\ variant = "B" /\ arg' = <<running>>
           /\ ~running'
           /\ nSteps' = 1
           /\ IsGrid(grid', gridSize)
           /\ \A c \in Cells(gridSize) :
                grid'[c[2]][c[1]] = LifeRule(grid, c[1], c[2], gridSize)
           /\ UNCHANGED <<gridSize, lastStepTime, speedMs>>
      /\ op' = "clear" =>
           /\ variant = "B" /\ arg' = <<running>>
           /\ ~running'
           /\ IsGrid(grid', gridSize)
           /\ \A c \in Cells(gridSize) : grid'[c[2]][c[1]] = 0
           /\ UNCHANGED <<gridSize, lastStepTime, speedMs>>
      /\ (variant = "B" /\ op' \in {"random", "click"}) => running' = running
    ]_vars

\* the step button pressed while the loop was running, after the loop had
\* stepped: the flag is cleared and the grid is one generation on
C15_Witness ==
  /\ variant = "B" /\ op = "step" /\ arg = <<TRUE>>
  /\ ~running /\ lastStepTime > 0
  /\ grid # grid0 /\ AliveCells(grid, gridSize) # {}

\* C16: in variant B a click on a cell of the grid flips that cell, alive to
\* dead and dead to alive, leaves every other cell, gridSize, the running
\* flag, the speed and lastStepTime as they are, and draws the grid; a second
\* click on the same cell, with no other handler between the two, leaves the
\* grid the first click found.
C16_Toggle ==
  [][ (variant = "B" /\ op' = "click"
         /\ arg'[1] \in Idx(gridSize) /\ arg'[2] \in Idx(gridSize)) =>
        /\ \A c \in Cells(gridSize) :
             grid'[c[2]][c[1]] =
               IF c = arg' THEN 1 - grid[c[2]][c[1]] ELSE grid[c[2]][c[1]]
        /\ IsGrid(grid', gridSize)
        /\ drawn' = grid'
        /\ UNCHANGED <<gridSize, running, speedMs, lastStepTime, canvasWidth,
                       cellSize>>
        /\ (op = "click" /\ arg = arg') => grid' = grid0
    ]_vars

\* a click on an alive cell while the loop is running: the cell is dead, as
\* it was before an earlier click or a randomize set it alive, and another
\* cell is still alive
C16_Witness ==
  /\ variant = "B" /\ op = "click" /\ running
  /\ arg[1] \in Idx(gridSize) /\ arg[2] \in Idx(gridSize)
  /\ grid0[arg[2]][arg[1]] = 1 /\ grid[arg[2]][arg[1]] = 0
  /\ \E c \in Cells(gridSize) : c # arg /\ grid[c[2]][c[1]] = 1

----------------------------------------------------------------------------
(* The life of a ripple: variant A from its first frame, clicked on during *)
(* its first frames only, with frame callbacks that keep coming until every *)
(* ripple has had the time to expire.                                       *)

\* clicks arrive during the first ClickFrames frames
ClickFrames == MaxFrameSkip

\* the most frames from one generation tick to the next: the frames before
\* one is due, the last of them followed by the longest skip
TickFrames == ((speedMsA + FrameMs - 1) \div FrameMs) - 1 + MaxFrameSkip

\* the clock of SpecLive stops after LiveFrames frames: time for the ticks
\* that take a ripple from age 0 past maxAge, and one more
LiveFrames == ClickFrames + (maxAge + 2) * TickFrames

InitLive ==
  Drawn("A", LiveGridSize,
        placeWordANDER(createEmptyGrid(LiveGridSize), LiveGridSize), <<>>)

\* requestAnimationFrame(loop): a later frame callback
Frame == \E timestamp \in Timestamps(LiveFrames) : timestamp > now /\ LoopA(timestamp)

NextLive ==
  \/ Frame
  \/ \E rectWidth \in RectWidths(canvasWidth) :
       \E offsetX \in {-1, 0} :
         /\ Len(ripples) < MaxRipples
         /\ now <= ClickFrames * FrameMs
         /\ ClickA(offsetX, 0, rectWidth)

\* every invocation of loop requests the next frame, so frames keep coming
SpecLive == InitLive /\ [][NextLive]_vars /\ WF_vars(Frame)

\* C17: a ripple is spawned at age 0; every generation tick sets alive the
\* cells of every active ripple at the age the tick finds it (they are what
\* is drawn unless the same invocation resets), then makes the ripple one
\* tick older, and removes it in the tick that finds it at age 10, its 11th;
\* no other handler changes a ripple.  A ripple of age a has seen a ticks,
\* speedMs apart, and a ripple at most TickFrames frames old per tick it has
\* seen.  With frames that keep coming and no click after the first
\* ClickFrames frames, the ripple list becomes empty and stays empty.
C17_RippleLife ==
  /\ [](\A i \in 1 .. Len(ripples) :
          /\ lastStepTime >= ripples[i].age * speedMsA
          /\ lastStepTime <= (ClickFrames + ripples[i].age * TickFrames) * FrameMs)
  /\ [][ /\ (op' = "click" /\ ripples' # ripples) =>
              /\ Len(ripples') = Len(ripples) + 1
              /\ SubSeq(ripples', 1, Len(ripples)) = ripples
              /\ ripples'[Len(ripples')].age = 0
         /\ (op' = "loop" /\ nSteps' = 1) =>
              /\ ripples' = AgedKept(ripples)
              /\ \A i \in 1 .. Len(ripples) :
                   /\ ripples[i].age \in 0 .. 10
                   /\ ripples[i].age = 10 <=>
                        ~ \E j \in 1 .. Len(ripples') :
                            ripples'[j].age = ripples[i].age + 1
                   /\ nResets' = 0 =>
                        \A c \in RingCells(ripples[i], gridSize) :
                          grid'[c[2]][c[1]] = 1 /\ drawn'[c[2]][c[1]] = 1
         /\ (op' = "loop" /\ nSteps' = 0) => ripples' = ripples
       ]_vars
  /\ <>[](ripples = <<>>)

\* the 11th tick since the click, as early as it can come: it found the
\* ripple at age 10 and removed it
C17_Witness ==
  /\ variant = "A" /\ op = "loop" /\ nSteps = 1
  /\ Len(ripples0) = 1 /\ ripples0[1].age = 10 /\ ripples = <<>>
  /\ lastStepTime = 11 * speedMsA

----------------------------------------------------------------------------
(* Ripples and the periodic reset, under Spec *)

\* C18: the periodic reset of variant A does not touch the ripples: an
\* invocation that resets without stepping leaves the list as it is, centres
\* and ages, and one that steps and resets leaves it as the step alone does,
\* every ripple one tick older.  In that invocation the reset comes after the
\* step: the grid left is a scatter on an empty grid, in which a ripple cell
\* the step had set alive is alive only where a scattered shape covers it.
\* A tick after the reset sets the cells of the ripples still active alive in
\* the grid the reset left, stepped.
C18_ResetKeepsRipples ==
  [][ (variant = "A" /\ gridSize = GridSizeA /\ op' = "loop") =>
        /\ (nResets' = 1 /\ nSteps' = 0) => ripples' = ripples
        /\ (nResets' = 1 /\ nSteps' = 1) =>
             /\ ripples' = AgedKept(ripples)
             /\ \A c \in RippleCells(ripples, gridSize) :
                  grid'[c[2]][c[1]] = 1 =>
                    \E image \in ShapeImagesA :
                      c \in image /\ image \subseteq AliveCells(grid', gridSize)
        /\ (nSteps' = 1 /\ nResets' = 0) =>
             /\ ripples' = AgedKept(ripples)
             /\ \A c \in RippleCells(ripples, gridSize) : grid'[c[2]][c[1]] = 1
    ]_vars

\* an invocation that stepped and reset with a ripple active: the ripple is
\* a tick older and still active, and a cell of the ring the step lit is dead
\* in the grid the reset left
C18_Witness ==
  /\ variant = "A" /\ op = "loop" /\ nSteps = 1 /\ nResets = 1
  /\ Len(ripples0) = 1 /\ Len(ripples) = 1
  /\ ripples[1] = [ripples0[1] EXCEPT !.age = ripples0[1].age + 1]
  /\ \E c \in RingCells(ripples0[1], gridSize) :
       /\ stepGrid(grid0, ripples0, gridSize)[c[2]][c[1]] = 1
       /\ grid[c[2]][c[1]] = 0

====
